---- MODULE Spec2Model ----
(***************************************************************************)
(* Model of algorithm/classic_problem/ch4_graph.py: Edge, WeightedEdge,    *)
(* Graph and WeightedGraph.                                                *)
(*                                                                         *)
(* Python lists are objects that are shared by reference: a graph stores   *)
(* the list object it was given (or the default-argument list object of    *)
(* its __init__), while its adjacency lists are a fresh list built at      *)
(* construction.  The model therefore keeps the vertex lists in a store    *)
(* (lists) and each graph holds a reference into it.                       *)
(*                                                                         *)
(* Python indexing is modelled as it behaves: an index i into a list of    *)
(* length n is accepted when -n <= i < n and negative indices count from   *)
(* the end; every other index raises IndexError.                           *)
(***************************************************************************)
EXTENDS Integers, Sequences, FiniteSets, TLC

\* ---------------------------------------------------------------- bounds
\* add_vertex is explored while the vertex list is shorter than this.
MaxVertices == 2
\* add_edge* calls are explored while the graph stores fewer records than this.
MaxEdgeRecords == 1

\* ---------------------------------------------------------------- inputs
GraphIds == {"g1", "g2"}
\* Vertex values stored in graphs.
Values == {"A", "B"}
\* Values passed to value-based lookups: the stored ones and one never stored.
LookupValues == Values \cup {"Z"}
Weights == {10, 20}
\* Index arguments: a negative one, valid ones and one that is always too large.
IndexArgs == {0 - 1, 0, 1, MaxVertices}
\* The lists a caller may hand to a constructor.
CallerLists == {<<>>, <<"A">>}

\* The list objects: the default argument of Graph.__init__, the default
\* argument of WeightedGraph.__init__, and one list owned by the caller.
GraphDefault == "Graph.__init__.vertices"
WeightedGraphDefault == "WeightedGraph.__init__.vertices"
CallerList == "caller"
ListIds == {GraphDefault, WeightedGraphDefault, CallerList}

\* Exception kinds.
IndexError == "IndexError"
ValueError == "ValueError"
NoError == "ok"
None == "None"

VARIABLES
  lists,    \* the store of vertex list objects: ListIds -> sequence of values
  graphs,   \* GraphIds -> the graph object in that slot (or NoGraph)
  hist,     \* per graph: how many add_edge* calls returned normally, and the
            \* (u, v, w) of the add_edge_by_indices calls among them
  last      \* the last call made, its arguments, its exception and its result

vars == <<lists, graphs, hist, last>>

\* ---------------------------------------------------------------- Python lists
Range(s) == {s[i] : i \in 1 .. Len(s)}

\* list[i] is accepted for -len <= i < len.
PyInRange(s, i) == i >= 0 - Len(s) /\ i < Len(s)

\* The 1-based position list[i] denotes.
PyPos(s, i) == IF i < 0 THEN Len(s) + i + 1 ELSE i + 1

PyGet(s, i) == s[PyPos(s, i)]

\* list.index(x): the first position holding x (0-based); callers test membership.
PyIndexOf(s, x) == (CHOOSE i \in 1 .. Len(s) : s[i] = x /\ \A j \in 1 .. (i - 1) : s[j] # x) - 1

\* list[i].append(x) on a list of lists.
AppendAt(ll, i, x) == [ll EXCEPT ![PyPos(ll, i)] = Append(@, x)]

RECURSIVE SumLen(_)
SumLen(ll) == IF ll = <<>> THEN 0 ELSE Len(Head(ll)) + SumLen(Tail(ll))

\* ---------------------------------------------------------------- edges
Edge(u, v) == [u |-> u, v |-> v]

WeightedEdge(u, v, weight) == [u |-> u, v |-> v, weight |-> weight]

IsWeightedEdge(e) == "weight" \in DOMAIN e

\* Edge.reversed / WeightedEdge.reversed, by the edge's class.
reversed(e) ==
  IF IsWeightedEdge(e) THEN WeightedEdge(e.v, e.u, e.weight) ELSE Edge(e.v, e.u)

\* ---------------------------------------------------------------- graph objects
NoGraph == [alive |-> FALSE, weighted |-> FALSE, vertices |-> None, edges |-> <<>>]

\* Graph.__init__ / WeightedGraph.__init__: keep the list object, build one
\* empty adjacency list per vertex it currently holds.
NewGraph(weighted, ref, vs) ==
  [alive |-> TRUE, weighted |-> weighted, vertices |-> ref,
   edges |-> [i \in 1 .. Len(vs) |-> <<>>]]

\* self._vertices of graph g.
VerticesOf(g) == lists[graphs[g].vertices]

\* self._edges of graph g.
EdgesOf(g) == graphs[g].edges

vertex_count(g) == Len(VerticesOf(g))

edge_count(g) == SumLen(EdgesOf(g))

\* ---------------------------------------------------------------- queries
\* Each returns [err, ret].
Ok(ret) == [err |-> NoError, ret |-> ret]
Raise(kind) == [err |-> kind, ret |-> None]

vertex_at(vs, index) ==
  IF PyInRange(vs, index) THEN Ok(PyGet(vs, index)) ELSE Raise(IndexError)

index_of(vs, vertex) ==
  IF vertex \in Range(vs) THEN Ok(PyIndexOf(vs, vertex)) ELSE Raise(ValueError)

edges_for_index(es, index) ==
  IF PyInRange(es, index) THEN Ok(PyGet(es, index)) ELSE Raise(IndexError)

neighbors_for_index(vs, es, index) ==
  IF ~PyInRange(es, index) THEN Raise(IndexError)
  ELSE LET adj == PyGet(es, index) IN
       IF \E k \in 1 .. Len(adj) : ~PyInRange(vs, adj[k].v) THEN Raise(IndexError)
       ELSE Ok([k \in 1 .. Len(adj) |-> PyGet(vs, adj[k].v)])

neighbors_for_vertex(vs, es, vertex) ==
  IF vertex \notin Range(vs) THEN Raise(ValueError)
  ELSE neighbors_for_index(vs, es, PyIndexOf(vs, vertex))

neighbors_for_index_with_weights(vs, es, index) ==
  IF ~PyInRange(es, index) THEN Raise(IndexError)
  ELSE LET adj == PyGet(es, index) IN
       IF \E k \in 1 .. Len(adj) : ~PyInRange(vs, adj[k].v) THEN Raise(IndexError)
       ELSE Ok([k \in 1 .. Len(adj) |-> <<PyGet(vs, adj[k].v), adj[k].weight>>])

\* ---------------------------------------------------------------- mutators
\* Each returns [err, edges]: the exception raised and self._edges afterwards.

\* Graph.add_edge: two appends in sequence, each after its own subscript.
add_edge(es, edge) ==
  IF ~PyInRange(es, edge.u) THEN [err |-> IndexError, edges |-> es]
  ELSE LET es1 == AppendAt(es, edge.u, edge) IN
       IF ~PyInRange(es1, edge.v) THEN [err |-> IndexError, edges |-> es1]
       ELSE [err |-> NoError, edges |-> AppendAt(es1, edge.v, reversed(edge))]

\* Graph.add_edge_by_indices / WeightedGraph.add_edge_by_indices.
add_edge_by_indices(weighted, es, u, v, weight) ==
  add_edge(es, IF weighted THEN WeightedEdge(u, v, weight) ELSE Edge(u, v))

\* A variant that stores the first record before looking the second value up.
add_edge_by_vertices_eager(weighted, vs, es, first, second, weight) ==
  IF first \notin Range(vs) THEN [err |-> ValueError, edges |-> es]
  ELSE LET u == PyIndexOf(vs, first)
           es1 == AppendAt(es, u, IF weighted THEN WeightedEdge(u, u, weight) ELSE Edge(u, u))
       IN IF second \notin Range(vs) THEN [err |-> ValueError, edges |-> es1]
          ELSE add_edge_by_indices(weighted, es, u, PyIndexOf(vs, second), weight)

\* Graph.add_edge_by_vertices / WeightedGraph.add_edge_by_vertices: both
\* lookups come before the call that stores anything.
add_edge_by_vertices(weighted, vs, es, first, second, weight) ==
  IF first \notin Range(vs) THEN [err |-> ValueError, edges |-> es]
  ELSE IF second \notin Range(vs) THEN [err |-> ValueError, edges |-> es]
  ELSE add_edge_by_indices(weighted, es, PyIndexOf(vs, first), PyIndexOf(vs, second), weight)

\* ---------------------------------------------------------------- state machine
Call(op, g, a, b, err, ret) ==
  [op |-> op, g |-> g, a |-> a, b |-> b, err |-> err, ret |-> ret]

NoHist == [added |-> 0, calls |-> {}]

Init ==
  /\ \E cl \in CallerLists :
       lists = [r \in ListIds |-> IF r = CallerList THEN cl ELSE <<>>]
  /\ graphs = [g \in GraphIds |-> NoGraph]
  /\ hist = [g \in GraphIds |-> NoHist]
  /\ last = Call("init", None, None, None, NoError, None)

\* Weight argument of a call: a weight for a weighted graph, none otherwise.
WeightArgs(g) == IF graphs[g].weighted THEN Weights ELSE {None}

\* g = Graph() / Graph(caller) / WeightedGraph() / WeightedGraph(caller)
Construct(g, weighted, byDefault) ==
  /\ ~graphs[g].alive
  /\ LET ref == IF byDefault
                THEN (IF weighted THEN WeightedGraphDefault ELSE GraphDefault)
                ELSE CallerList
     IN graphs' = [graphs EXCEPT ![g] = NewGraph(weighted, ref, lists[ref])]
  /\ last' = Call("__init__", g, None, None, NoError, None)
  /\ UNCHANGED <<lists, hist>>

\* g.add_vertex(vertex)
AddVertex(g, vertex) ==
  /\ graphs[g].alive
  /\ vertex_count(g) < MaxVertices
  /\ lists' = [lists EXCEPT ![graphs[g].vertices] = Append(@, vertex)]
  /\ graphs' = [graphs EXCEPT ![g].edges = Append(@, <<>>)]
  /\ last' = Call("add_vertex", g, vertex, None, NoError,
                  Len(lists'[graphs[g].vertices]) - 1)
  /\ UNCHANGED hist

\* The bookkeeping shared by the add_edge* actions: r is what the call did;
\* byIndices tells that add_edge_by_indices(u, v, w) ran and returned normally.
Stored(g, op, a, b, byIndices, u, v, w, r) ==
  /\ graphs' = [graphs EXCEPT ![g].edges = r.edges]
  /\ hist' = IF r.err # NoError THEN hist
             ELSE IF byIndices
             THEN [hist EXCEPT ![g].added = @ + 1, ![g].calls = @ \cup {<<u, v, w>>}]
             ELSE [hist EXCEPT ![g].added = @ + 1]
  /\ last' = Call(op, g, a, b, r.err, None)
  /\ UNCHANGED lists

\* g.add_edge(Edge(u, v)) / g.add_edge(WeightedEdge(u, v, w))
AddEdge(g, u, v, w) ==
  /\ graphs[g].alive
  /\ edge_count(g) < MaxEdgeRecords
  /\ Stored(g, "add_edge", u, v, FALSE, u, v, w,
            add_edge(EdgesOf(g), IF graphs[g].weighted THEN WeightedEdge(u, v, w) ELSE Edge(u, v)))

\* g.add_edge_by_indices(u, v) / g.add_edge_by_indices(u, v, w)
AddEdgeByIndices(g, u, v, w) ==
  /\ graphs[g].alive
  /\ edge_count(g) < MaxEdgeRecords
  /\ Stored(g, "add_edge_by_indices", u, v, TRUE, u, v, w,
            add_edge_by_indices(graphs[g].weighted, EdgesOf(g), u, v, w))

\* g.add_edge_by_vertices(first, second) / (first, second, w)
AddEdgeByVertices(g, first, second, w) ==
  /\ graphs[g].alive
  /\ edge_count(g) < MaxEdgeRecords
  /\ LET r == add_edge_by_vertices(graphs[g].weighted, VerticesOf(g), EdgesOf(g), first, second, w)
     IN IF r.err = ValueError
        THEN Stored(g, "add_edge_by_vertices", first, second, FALSE, None, None, w, r)
        ELSE Stored(g, "add_edge_by_vertices", first, second, TRUE,
                    PyIndexOf(VerticesOf(g), first), PyIndexOf(VerticesOf(g), second), w, r)

Query(op, g, a, r) ==
  /\ graphs[g].alive
  /\ last' = Call(op, g, a, None, r.err, r.ret)
  /\ UNCHANGED <<lists, graphs, hist>>

VertexAt(g, index) == Query("vertex_at", g, index, vertex_at(VerticesOf(g), index))

IndexOf(g, vertex) == Query("index_of", g, vertex, index_of(VerticesOf(g), vertex))

EdgesForIndex(g, index) ==
  Query("edges_for_index", g, index, edges_for_index(EdgesOf(g), index))

NeighborsForIndex(g, index) ==
  Query("neighbors_for_index", g, index, neighbors_for_index(VerticesOf(g), EdgesOf(g), index))

NeighborsForVertex(g, vertex) ==
  Query("neighbors_for_vertex", g, vertex, neighbors_for_vertex(VerticesOf(g), EdgesOf(g), vertex))

NeighborsForIndexWithWeights(g, index) ==
  /\ graphs[g].weighted
  /\ Query("neighbors_for_index_with_weights", g, index,
           neighbors_for_index_with_weights(VerticesOf(g), EdgesOf(g), index))

\* One graph instance and the operations that change it.
Next ==
  \/ \E weighted \in BOOLEAN, byDefault \in BOOLEAN : Construct("g1", weighted, byDefault)
  \/ \E vertex \in Values : AddVertex("g1", vertex)
  \/ \E u \in IndexArgs, v \in IndexArgs : \E w \in WeightArgs("g1") : AddEdge("g1", u, v, w)
  \/ \E u \in IndexArgs, v \in IndexArgs : \E w \in WeightArgs("g1") : AddEdgeByIndices("g1", u, v, w)
  \/ \E first \in LookupValues, second \in LookupValues :
       \E w \in WeightArgs("g1") : AddEdgeByVertices("g1", first, second, w)

Spec == Init /\ [][Next]_vars

\* One graph instance, its changes and its queries.
NextQueries ==
  \/ Next
  \/ \E index \in IndexArgs : VertexAt("g1", index)
  \/ \E vertex \in LookupValues : IndexOf("g1", vertex)
  \/ \E index \in IndexArgs : EdgesForIndex("g1", index)
  \/ \E index \in IndexArgs : NeighborsForIndex("g1", index)
  \/ \E vertex \in LookupValues : NeighborsForVertex("g1", vertex)
  \/ \E index \in IndexArgs : NeighborsForIndexWithWeights("g1", index)

SpecQueries == Init /\ [][NextQueries]_vars

\* Several graph instances alive at once.  The add_edge* calls are explored
\* while the instances together store fewer than MaxEdgeRecords records.
TotalEdgeRecords == edge_count("g1") + edge_count("g2")

\* Index arguments of the calls explored with several instances alive.
SharedIndexArgs == {0, MaxVertices}

NextShared ==
  \/ \E g \in GraphIds, weighted \in BOOLEAN, byDefault \in BOOLEAN : Construct(g, weighted, byDefault)
  \/ \E g \in GraphIds, vertex \in Values : AddVertex(g, vertex)
  \/ \E g \in GraphIds, u \in SharedIndexArgs, v \in SharedIndexArgs : \E w \in WeightArgs(g) :
       TotalEdgeRecords < MaxEdgeRecords /\ AddEdge(g, u, v, w)
  \/ \E g \in GraphIds, u \in SharedIndexArgs, v \in SharedIndexArgs : \E w \in WeightArgs(g) :
       TotalEdgeRecords < MaxEdgeRecords /\ AddEdgeByIndices(g, u, v, w)
  \/ \E g \in GraphIds, first \in LookupValues, second \in LookupValues : \E w \in WeightArgs(g) :
       TotalEdgeRecords < MaxEdgeRecords /\ AddEdgeByVertices(g, first, second, w)

SpecShared == Init /\ [][NextShared]_vars

\* ---------------------------------------------------------------- properties
Alive(g) == graphs[g].alive

\* i lies outside [0, n).
Outside(n, i) == i < 0 \/ i >= n

\* The call returned a sequence holding x.
Returns(r, x) == r.err = NoError /\ x \in Range(r.ret)

\* Number of records (u, v) in an adjacency list.
Records(adj, u, v) == Cardinality({k \in 1 .. Len(adj) : adj[k].u = u /\ adj[k].v = v})

AddEdgeOps == {"add_edge", "add_edge_by_indices"}
IndexOps == AddEdgeOps \cup {"vertex_at", "edges_for_index", "neighbors_for_index"}
MutatingOps == AddEdgeOps \cup {"add_vertex", "add_edge_by_vertices"}

\* C1: an add_edge / add_edge_by_indices call in which u or v is >= vertex_count
\* fails with IndexError and leaves the vertex sequence and every adjacency
\* list as they were before the call.
C1_FailedAddEdgeLeavesGraphUnchanged ==
  [][(/\ last'.op \in AddEdgeOps
      /\ (last'.a >= vertex_count(last'.g) \/ last'.b >= vertex_count(last'.g)))
     => (last'.err = IndexError /\ lists' = lists /\ graphs' = graphs)]_vars

\* C2: every call whose index argument lies outside [0, vertex_count), negative
\* ones included, fails with IndexError; it returns no value and adds no edge.
C2_IndexOutsideRangeFails ==
  [][(/\ last'.op \in IndexOps
      /\ \/ Outside(vertex_count(last'.g), last'.a)
         \/ (last'.op \in AddEdgeOps /\ Outside(vertex_count(last'.g), last'.b)))
     => (last'.err = IndexError /\ graphs' = graphs)]_vars

\* C3: in every reachable state every graph has as many adjacency lists as vertices.
C3_ParallelSequences ==
  \A g \in GraphIds : Alive(g) => Len(EdgesOf(g)) = vertex_count(g)

\* C4: after a successful add_edge_by_indices(u, v) and whatever calls follow,
\* vertex_at(v) is among neighbors_for_index(u) and vertex_at(u) among
\* neighbors_for_index(v); and for all vertices u, v the list of u holds as
\* many records (u, v) as the list of v holds records (v, u).
C4_UndirectedSymmetry ==
  \A g \in GraphIds : Alive(g) =>
    LET vs == VerticesOf(g)
        es == EdgesOf(g)
    IN /\ \A c \in hist[g].calls :
            /\ vertex_at(vs, c[1]).err = NoError
            /\ vertex_at(vs, c[2]).err = NoError
            /\ Returns(neighbors_for_index(vs, es, c[1]), vertex_at(vs, c[2]).ret)
            /\ Returns(neighbors_for_index(vs, es, c[2]), vertex_at(vs, c[1]).ret)
       /\ \A u \in 0 .. (Len(es) - 1), v \in 0 .. (Len(es) - 1) :
            Records(es[u + 1], u, v) = Records(es[v + 1], v, u)

\* C5: edge_count is exactly twice the number of add_edge* calls that added an
\* edge; add_vertex and failed calls leave it unchanged.
C5_EdgeCountTwiceCalls ==
  \A g \in GraphIds : Alive(g) => edge_count(g) = 2 * hist[g].added

\* C6: add_edge_by_vertices(first, second[, weight]) with first or second absent
\* from the vertex sequence fails with the not-found error (ValueError) and
\* leaves the vertex sequence and every adjacency list unchanged.
C6_UnknownVertexLeavesGraphUnchanged ==
  [][(/\ last'.op = "add_edge_by_vertices"
      /\ \/ last'.a \notin Range(VerticesOf(last'.g))
         \/ last'.b \notin Range(VerticesOf(last'.g)))
     => (last'.err = ValueError /\ lists' = lists /\ graphs' = graphs)]_vars

\* C6 witness: the call failed with first present and only second absent.
C6_Witness ==
  /\ last.op = "add_edge_by_vertices"
  /\ last.err = ValueError
  /\ last.a \in Range(VerticesOf(last.g))
  /\ last.b \notin Range(VerticesOf(last.g))

\* C7: in a weighted graph, after a successful add_edge_by_indices(u, v, w) and
\* whatever calls follow, neighbors_for_index_with_weights(u) holds
\* (vertex_at(v), w) and neighbors_for_index_with_weights(v) holds (vertex_at(u), w).
C7_WeightOnBothRecords ==
  \A g \in GraphIds : (Alive(g) /\ graphs[g].weighted) =>
    LET vs == VerticesOf(g)
        es == EdgesOf(g)
    IN \A c \in hist[g].calls :
         /\ vertex_at(vs, c[1]).err = NoError
         /\ vertex_at(vs, c[2]).err = NoError
         /\ Returns(neighbors_for_index_with_weights(vs, es, c[1]),
                    <<vertex_at(vs, c[2]).ret, c[3]>>)
         /\ Returns(neighbors_for_index_with_weights(vs, es, c[2]),
                    <<vertex_at(vs, c[1]).ret, c[3]>>)

\* C8: right after add_vertex(value) returned i: i = vertex_count - 1,
\* vertex_at(i) = value and edges_for_index(i) is an empty adjacency list.
C8_AddVertexReturnsNewIndex ==
  last.op = "add_vertex" =>
    /\ last.err = NoError
    /\ last.ret = vertex_count(last.g) - 1
    /\ vertex_at(VerticesOf(last.g), last.ret).err = NoError
    /\ vertex_at(VerticesOf(last.g), last.ret).ret = last.a
    /\ edges_for_index(EdgesOf(last.g), last.ret).err = NoError
    /\ edges_for_index(EdgesOf(last.g), last.ret).ret = <<>>

\* C9: a call that changes one graph leaves the vertex sequence and the
\* adjacency lists of every other graph unchanged.
C9_GraphsOwnTheirSequences ==
  [][last'.op \in MutatingOps =>
       \A h \in GraphIds \ {last'.g} : Alive(h) =>
         /\ graphs'[h] = graphs[h]
         /\ lists'[graphs[h].vertices] = lists[graphs[h].vertices]]_vars

\* C10: every record e in the adjacency list of a vertex i has e.u = i and
\* 0 <= e.v < vertex_count, so neighbors_for_index(i) does not fail for a valid i.
C10_AdjacencyWellFormed ==
  \A g \in GraphIds : Alive(g) =>
    LET vs == VerticesOf(g)
        es == EdgesOf(g)
    IN \A i \in 0 .. (vertex_count(g) - 1) :
         /\ i < Len(es)
         /\ \A k \in 1 .. Len(es[i + 1]) :
              es[i + 1][k].u = i /\ es[i + 1][k].v >= 0 /\ es[i + 1][k].v < vertex_count(g)
         /\ neighbors_for_index(vs, es, i).err = NoError

====
